---- MODULE Spec2Model ----
(***************************************************************************)
(* Gaussian-process constructor, covariance algebra and posterior sampler  *)
(* of pymc3.gp (gp.py, cov.py).                                            *)
(*                                                                         *)
(* Python values are records [t |-> <class>, v |-> <payload>]; the class   *)
(* named in t is the one isinstance() tests against.                       *)
(***************************************************************************)
EXTENDS Integers, Sequences, FiniteSets, TLC

VARIABLES
    gp_args,        \* the arguments of the call of GP, NoCall before it
    gp_result,      \* what the call of GP raised or built
    s_in,           \* the arguments of the call of sample_gp
    s_pc,           \* where sample_gp is
    s_indices,      \* the trace indices np.random.choice drew
    s_pos,          \* how many of them the for loop has consumed
    s_samples,      \* the local list samples (Unbound before line 420)
    s_pending,      \* the exception in flight when the finally clause runs
    s_ret,          \* what sample_gp returned
    s_interrupt,    \* where a KeyboardInterrupt was delivered, and samples then
    np_random,      \* numpy's process-wide random state
    bar,            \* the tqdm progress bar
    c_in,           \* the operands a, b, c and the operator of the expression
    c_pc,           \* "init", "built" or "evaluated"
    c_lhs,          \* (a op b) op c
    c_rhs,          \* a op (b op c)
    c_obj,          \* the object further + and * are applied to
    c_applied,      \* how many further applications were made
    c_eval,         \* the last evaluation: diag, the values, the merged terms
    gibbs_args,     \* the arguments of the call of Gibbs, NoCall before it
    gibbs_obj,      \* what the call of Gibbs raised or built
    op_gp,          \* the GP variant object the operations are called on
    op_out          \* what the last operation on op_gp raised or computed

gp_vars == <<gp_args, gp_result>>

s_vars == <<s_in, s_pc, s_indices, s_pos, s_samples, s_pending, s_ret,
            s_interrupt, np_random, bar>>

c_vars == <<c_in, c_pc, c_lhs, c_rhs, c_obj, c_applied, c_eval>>

gibbs_vars == <<gibbs_args, gibbs_obj>>

op_vars == <<op_gp, op_out>>

vars == <<gp_vars, s_vars, c_vars, gibbs_vars, op_vars>>

----------------------------------------------------------------------------
(* Python values *)

None == [t |-> "NoneType", v |-> "None"]

IsNone(x) == x.t = "NoneType"

isinstance(x, cls) == x.t = cls

Str(s) == [t |-> "str", v |-> s]

----------------------------------------------------------------------------
(* gp.py: the GP constructor *)

\* the active model context looked up when no model is passed
ActiveContext == [t |-> "Model", v |-> "context"]

modelcontext(model) == IF IsNone(model) THEN ActiveContext ELSE model

Zero == [t |-> "Mean", v |-> "Zero"]

\* lines 62-70: the checks on mean_func and cov_func; "" when they pass
ValidateFuncs_swapped(mean_func, cov_func) ==
    IF IsNone(cov_func) THEN "GPValueError"
    ELSE IF ~isinstance(cov_func, "Covariance") THEN "GPValueError"
    ELSE ""

ValidateFuncs(mean_func, cov_func) ==
    IF ~IsNone(mean_func) /\ ~isinstance(mean_func, "Mean") THEN "GPValueError"
    ELSE IF IsNone(cov_func) THEN "GPValueError"
    ELSE IF ~isinstance(cov_func, "Covariance") THEN "GPValueError"
    ELSE ""

\* lines 73, 78, 86: which branch of the constructor runs
Branch_any(observed, approx, n_inducing, inducing_points) ==
    IF IsNone(observed) THEN "NONCONJUGATE"
    ELSE IF IsNone(approx) \/ IsNone(n_inducing) \/ IsNone(inducing_points)
         THEN "CONJUGATE"
         ELSE "APPROXIMATION"

Branch(observed, approx, n_inducing, inducing_points) ==
    IF IsNone(observed) THEN "NONCONJUGATE"
    ELSE IF IsNone(approx) /\ IsNone(n_inducing) /\ IsNone(inducing_points)
         THEN "CONJUGATE"
         ELSE "APPROXIMATION"

\* lines 79-83: the noise covariance function of the full-conjugate GP
NoiseFunc_unchecked(sigma, cov_func_noise) ==
    IF ~IsNone(sigma) /\ IsNone(cov_func_noise)
    THEN [raised |-> "", Kn |-> [t |-> "function", v |-> "sigma^2*eye"]]
    ELSE [raised |-> "", Kn |-> cov_func_noise]

NoiseFunc(sigma, cov_func_noise) ==
    IF IsNone(sigma) /\ IsNone(cov_func_noise)
    THEN [raised |-> "GPValueError", Kn |-> None]
    ELSE IF ~IsNone(sigma) /\ IsNone(cov_func_noise)
    THEN [raised |-> "", Kn |-> [t |-> "function", v |-> "sigma^2*eye"]]
    ELSE [raised |-> "", Kn |-> cov_func_noise]

\* str.upper on the strings the model passes as approx
UpperOf(s) ==
    CASE s = "fitc" -> "FITC"
      [] s = "Fitc" -> "FITC"
      [] s = "vfe"  -> "VFE"
      [] s = "Vfe"  -> "VFE"
      [] s = "dtc"  -> "DTC"
      [] OTHER      -> s

\* line 87: approx = approx.upper(); only a str has the method
upper(approx) ==
    IF isinstance(approx, "str")
    THEN [raised |-> "", approx |-> Str(UpperOf(approx.v))]
    ELSE [raised |-> "AttributeError", approx |-> approx]

\* lines 90-99: inducing points initialised by k-means on the whitened X
\* (line 95 rebinds X to X.value when X is not a numpy array)
ValueOf(X) == IF isinstance(X, "ndarray") THEN X ELSE [t |-> "ndarray", v |-> X.v]

InitInducing(X, n_inducing, inducing_points) ==
    IF IsNone(inducing_points) /\ ~IsNone(n_inducing)
    THEN [kmeans |-> TRUE, X |-> ValueOf(X),
          inducing_points |-> [t |-> "ndarray", v |-> "Xu*scaling"]]
    ELSE [kmeans |-> FALSE, X |-> X, inducing_points |-> inducing_points]

\* lines 101-107: the default approximation and the check of its name
CheckApprox(approx) ==
    LET a == IF IsNone(approx) THEN Str("VFE") ELSE approx
        logged == IF IsNone(approx) THEN <<"Using VFE approximation">> ELSE <<>>
    IN  IF a.v \notin {"VFE", "FITC"}
        THEN [raised |-> "GPValueError", approx |-> a, log |-> logged]
        ELSE [raised |-> "", approx |-> a, log |-> logged]

\* lines 109-111
CheckInducing_skipped(inducing_points, n_inducing) == ""

CheckInducing(inducing_points, n_inducing) ==
    IF IsNone(inducing_points) /\ IsNone(n_inducing)
    THEN "GPValueError" ELSE ""

\* line 113: theano wraps the array, the data are the same
as_tensor_variable(x) == [t |-> "TensorVariable", v |-> x.v]

\* what a call of GP leaves behind: the exception it raised ("" for none),
\* the variant it built and that variant's attributes, and the side effects
Outcome(raised, variant, X, m, K, Kn, sigma, approx, Xu, kmeans, log, ctx) ==
    [raised |-> raised, variant |-> variant, X |-> X, m |-> m, K |-> K, Kn |-> Kn,
     sigma |-> sigma, approx |-> approx, Xu |-> Xu, kmeans |-> kmeans,
     log |-> log, model |-> ctx]

Raised(exc, kmeans, log, ctx) ==
    Outcome(exc, "none", None, None, None, None, None, None, None, kmeans, log, ctx)

GP(X, mean_func, cov_func, cov_func_noise, sigma, approx, n_inducing, inducing_points, observed, model) ==
    LET ctx   == modelcontext(model)
        mf    == IF IsNone(mean_func) THEN Zero ELSE mean_func
        bad   == ValidateFuncs(mean_func, cov_func)
        br    == Branch(observed, approx, n_inducing, inducing_points)
        noise == NoiseFunc(sigma, cov_func_noise)
        up    == upper(approx)
        ind   == InitInducing(X, n_inducing, inducing_points)
        chk   == CheckApprox(up.approx)
        noind == CheckInducing(ind.inducing_points, n_inducing)
    IN  IF bad # "" THEN Raised(bad, FALSE, <<>>, ctx)
        ELSE IF br = "NONCONJUGATE"
        THEN Outcome("", "GPFullNonConjugate", X, mf, cov_func, None, None,
                     None, None, FALSE, <<>>, ctx)
        ELSE IF br = "CONJUGATE"
        THEN IF noise.raised # "" THEN Raised(noise.raised, FALSE, <<>>, ctx)
             ELSE Outcome("", "GPFullConjugate", X, mf, cov_func, noise.Kn,
                          None, None, None, FALSE, <<>>, ctx)
        ELSE IF up.raised # "" THEN Raised(up.raised, FALSE, <<>>, ctx)
        ELSE IF chk.raised # "" THEN Raised(chk.raised, ind.kmeans, chk.log, ctx)
        ELSE IF noind # "" THEN Raised(noind, ind.kmeans, chk.log, ctx)
        ELSE Outcome("", "GPSparseConjugate", ind.X, mf, cov_func, None, sigma,
                     chk.approx, as_tensor_variable(ind.inducing_points),
                     ind.kmeans, chk.log, ctx)

----------------------------------------------------------------------------
(* inputs of the constructor *)

MeanFuncs  == {None, [t |-> "Mean", v |-> "Linear"], [t |-> "function", v |-> "f"]}
CovFuncs   == {None, [t |-> "Covariance", v |-> "ExpQuad"], [t |-> "function", v |-> "k"]}
NoiseFuncs == {None, [t |-> "Covariance", v |-> "WhiteNoise"]}
Sigmas     == {None, [t |-> "float", v |-> "0.1"]}
Approxes   == {None, Str("FITC"), Str("VFE"), Str("fitc"), Str("Vfe"),
               Str("DTC"), [t |-> "int", v |-> "1"]}
NInducings == {None, [t |-> "int", v |-> "2"]}
InducingPs == {None, [t |-> "ndarray", v |-> "Xu"]}
Observeds  == {None, [t |-> "ndarray", v |-> "y"]}
Xs         == {[t |-> "ndarray", v |-> "X"], [t |-> "TensorSharedVariable", v |-> "X"]}
Models     == {None, [t |-> "Model", v |-> "m"]}


----------------------------------------------------------------------------
(* gp.py: prior, conditional and random of the three variants *)

\* Python binds the positional arguments of a call to the parameters after
\* self: fewer than the required or more than the accepted ones is a TypeError
Binds(args, required, accepted) == Len(args) >= required /\ Len(args) <= accepted

\* what a method call gives: the exception it raised or the (mean, cov) pair
Fails(exc) == [raised |-> exc, via |-> "", mean |-> "", cov |-> ""]

MeanCov(via, mean, cov) == [raised |-> "", via |-> via, mean |-> mean, cov |-> cov]

Unlimited == 99

\* GPBase.prior / GPBase.conditional (lines 140-144)
GPBase_prior(args) ==
    IF ~Binds(args, 0, 1) THEN Fails("TypeError") ELSE Fails("NotImplementedError")

\* GPFullNonConjugate.prior(self) (lines 174-177)
NonConjugate_prior(gp, args) ==
    IF ~Binds(args, 0, 0) THEN Fails("TypeError")
    ELSE MeanCov("prior", "m(X)", "stabilize(K(X))")

\* GPFullNonConjugate.conditional(self, Xs, *args, **kwargs) (lines 179-191)
NonConjugate_conditional(gp, args) ==
    IF ~Binds(args, 1, Unlimited) THEN Fails("TypeError")
    ELSE MeanCov("conditional", "m(Xs) + dot(A.T, v)",
                 "stabilize(Kss - dot(A.T, A))")

\* GPFullConjugate.prior(self, obs_noise=False) (lines 229-235)
FullConjugate_prior(gp, args) ==
    IF ~Binds(args, 0, 1) THEN Fails("TypeError")
    ELSE LET obs_noise == IF Len(args) >= 1 THEN args[1] ELSE FALSE
         IN  MeanCov("prior", "m(X)",
                     IF obs_noise THEN "stabilize(K(X) + Kn(X))"
                                  ELSE "stabilize(K(X))")

\* GPFullConjugate.conditional(self, Xs, y, obs_noise=False) (lines 237-252)
FullConjugate_conditional(gp, args) ==
    IF ~Binds(args, 2, 3) THEN Fails("TypeError")
    ELSE LET obs_noise == IF Len(args) >= 3 THEN args[3] ELSE FALSE
         IN  MeanCov("conditional", "dot(A.T, V) + m(Xs)",
                     IF obs_noise THEN "stabilize(Kn(Xs) + Kss - dot(A.T, A))"
                                  ELSE "stabilize(Kss - dot(A.T, A))")

\* GPSparseConjugate.prior(self, obs_noise=False) (lines 294-307)
SparseConjugate_prior(gp, args) ==
    IF ~Binds(args, 0, 1) THEN Fails("TypeError")
    ELSE LET obs_noise == IF Len(args) >= 1 THEN args[1] ELSE FALSE
         IN  MeanCov("prior", "m(X)",
                     IF obs_noise
                     THEN "stabilize(Qff - (diag(Qff) - Kffd) + sigma2*eye(nf))"
                     ELSE "stabilize(Qff - (diag(Qff) - Kffd))")

\* GPSparseConjugate.conditional(self, Xs, y, obs_noise=False) (lines 309-338)
SparseConjugate_conditional(gp, args) ==
    IF ~Binds(args, 2, 3) THEN Fails("TypeError")
    ELSE IF gp.approx.v \notin {"FITC", "VFE"} THEN Fails("NotImplementedError")
    ELSE LET obs_noise == IF Len(args) >= 3 THEN args[3] ELSE FALSE
         IN  MeanCov("conditional", "dot(As.T, solve_upper(L_B.T, c))",
                     IF obs_noise
                     THEN "stabilize(Kss - dot(As.T, As) + dot(C.T, C) + sigma2*eye)"
                     ELSE "stabilize(Kss - dot(As.T, As) + dot(C.T, C))")

\* self.prior(...) / self.conditional(...) resolved on the variant's class
prior(gp, args) ==
    CASE gp.variant = "GPFullNonConjugate" -> NonConjugate_prior(gp, args)
      [] gp.variant = "GPFullConjugate"    -> FullConjugate_prior(gp, args)
      [] gp.variant = "GPSparseConjugate"  -> SparseConjugate_prior(gp, args)
      [] OTHER                             -> GPBase_prior(args)

conditional(gp, args) ==
    CASE gp.variant = "GPFullNonConjugate" -> NonConjugate_conditional(gp, args)
      [] gp.variant = "GPFullConjugate"    -> FullConjugate_conditional(gp, args)
      [] gp.variant = "GPSparseConjugate"  -> SparseConjugate_conditional(gp, args)
      [] OTHER                             -> Fails("NotImplementedError")

\* GPBase.random (lines 119-138): the exception raised, or one draw from the
\* multivariate normal with the mean and covariance evaluated at point
random(gp, point, size, X_values, obs_noise, y, from_prior) ==
    LET mc == IF from_prior THEN prior(gp, <<obs_noise>>)
              ELSE conditional(gp, <<X_values, y, obs_noise>>)
    IN  IF mc.raised # ""
        THEN [raised |-> mc.raised, via |-> "", point |-> point,
              mean |-> "", cov |-> "", dist |-> ""]
        ELSE [raised |-> "", via |-> mc.via, point |-> point,
              mean |-> mc.mean, cov |-> mc.cov, dist |-> "multivariate_normal"]

----------------------------------------------------------------------------
(* gp.py: sample_gp (lines 368-429) *)

MaxTrace == 3

MaxSamples == 4

PyInt(n) == [t |-> "int", n |-> n]

Unbound == [t |-> "unbound", v |-> <<>>]

List(seq) == [t |-> "list", v |-> seq]

NoReturn == [t |-> "noreturn", v |-> <<>>]

NoInterrupt == [at |-> "", samples |-> Unbound]

\* the sequences np.random.choice(np.arange(len), size, replace=False) can
\* give: every ordered choice of size distinct indices; none when it raises
\* ValueError (more than the population, or a negative size)
Choice_replace(len, size) ==
    IF size < 0 THEN {} ELSE [1..size -> 0..(len - 1)]

Choice(len, size) ==
    IF size < 0 \/ size > len THEN {}
    ELSE {c \in [1..size -> 0..(len - 1)] :
            \A i, j \in 1..size : i # j => c[i] # c[j]}

\* lines 403-404: np.random.seed(random_seed) when random_seed is truthy
Seeded_zero(state, random_seed) ==
    IF ~IsNone(random_seed) THEN [seed |-> random_seed, used |-> 0] ELSE state

Seeded(state, random_seed) ==
    IF ~IsNone(random_seed) /\ random_seed.n # 0
    THEN [seed |-> random_seed, used |-> 0]
    ELSE state

\* a draw from numpy's global generator advances its state
Advance(state) == [state EXCEPT !.used = @ + 1]

\* lines 406-407
NSamples_short(n_samples, len) == IF IsNone(n_samples) THEN len - 1 ELSE n_samples.n

NSamples(n_samples, len) == IF IsNone(n_samples) THEN len ELSE n_samples.n

\* lines 414-417: the observed variable of the model for a conjugate GP
ObservedOf(gp) ==
    IF gp.variant \in {"GPFullConjugate", "GPSparseConjugate"}
    THEN [t |-> "ObservedRV", v |-> "y"] ELSE None

\* lines 401-418: up to the try statement
Enter ==
    /\ s_pc = "call"
    /\ LET len    == s_in.trace_len
           n      == NSamples(s_in.n_samples, len)
           seeded == Seeded(np_random, s_in.random_seed)
       IN  IF Choice(len, n) = {}
           THEN /\ s_pc' = "raised"
                /\ s_pending' = "ValueError"
                /\ np_random' = seeded
                /\ UNCHANGED <<s_indices, bar>>
           ELSE /\ \E c \in Choice(len, n) : s_indices' = c
                /\ np_random' = Advance(seeded)
                /\ bar' = IF s_in.progressbar THEN "open" ELSE "disabled"
                /\ s_pc' = "try"
                /\ UNCHANGED s_pending
    /\ UNCHANGED <<s_in, s_pos, s_samples, s_ret, s_interrupt, gp_vars, c_vars,
                   gibbs_vars, op_vars>>

\* line 420
BeginLoop ==
    /\ s_pc = "try"
    /\ s_samples' = List(<<>>)
    /\ s_pc' = "loop"
    /\ UNCHANGED <<s_in, s_indices, s_pos, s_pending, s_ret, s_interrupt,
                   np_random, bar, gp_vars, c_vars,
                   gibbs_vars, op_vars>>

\* lines 421-423: one iteration; an exception of random leaves the loop
Draw ==
    /\ s_pc = "loop"
    /\ s_pos < Len(s_indices)
    /\ LET ix == s_indices[s_pos + 1]
           r  == random(s_in.gp, ix, None, s_in.X_values, s_in.obs_noise,
                        ObservedOf(s_in.gp), s_in.from_prior)
       IN  IF r.raised # ""
           THEN /\ s_pending' = r.raised
                /\ s_pc' = "finally"
                /\ UNCHANGED <<s_samples, s_pos, np_random>>
           ELSE /\ s_samples' = List(Append(s_samples.v, r))
                /\ s_pos' = s_pos + 1
                /\ np_random' = Advance(np_random)
                /\ UNCHANGED <<s_pc, s_pending>>
    /\ UNCHANGED <<s_in, s_indices, s_ret, s_interrupt, bar, gp_vars, c_vars,
                   gibbs_vars, op_vars>>

\* line 421: the indices are exhausted
EndLoop ==
    /\ s_pc = "loop"
    /\ s_pos = Len(s_indices)
    /\ s_pc' = "finally"
    /\ UNCHANGED <<s_in, s_indices, s_pos, s_samples, s_pending, s_ret,
                   s_interrupt, np_random, bar, gp_vars, c_vars,
                   gibbs_vars, op_vars>>

\* lines 424-425: which exception is still in flight after the except clause
Except_reraise(exc) == exc

Except(exc) == IF exc = "KeyboardInterrupt" THEN "" ELSE exc

\* a KeyboardInterrupt delivered inside the try statement, before line 420
\* has run or anywhere in the loop; the sample being drawn is abandoned
Interrupt ==
    /\ s_pc \in {"try", "loop"}
    /\ s_interrupt' = [at |-> s_pc, samples |-> s_samples]
    /\ s_pending' = Except("KeyboardInterrupt")
    /\ s_pc' = "finally"
    /\ UNCHANGED <<s_in, s_indices, s_pos, s_samples, s_ret, np_random, bar,
                   gp_vars, c_vars,
                   gibbs_vars, op_vars>>

\* line 429: np.array(samples); the local is unbound if line 420 never ran
Return(samples) ==
    IF samples.t = "unbound" THEN [raised |-> "UnboundLocalError", value |-> NoReturn]
    ELSE [raised |-> "", value |-> [t |-> "ndarray", v |-> samples.v]]

\* lines 426-429: the finally clause, then the pending exception or the return
Finally ==
    /\ s_pc = "finally"
    /\ bar' = IF s_in.progressbar THEN "closed" ELSE bar
    /\ IF s_pending # ""
       THEN /\ s_pc' = "raised"
            /\ UNCHANGED <<s_pending, s_ret>>
       ELSE LET r == Return(s_samples)
            IN  /\ s_pc' = IF r.raised # "" THEN "raised" ELSE "returned"
                /\ s_pending' = r.raised
                /\ s_ret' = r.value
    /\ UNCHANGED <<s_in, s_indices, s_pos, s_samples, s_interrupt, np_random,
                   gp_vars, c_vars,
                   gibbs_vars, op_vars>>

----------------------------------------------------------------------------
(* cov.py: covariance functions, constants and their combinations *)

NPoints == 2

\* the rows of X, and the one column of each: X = [[2], [1], [2], ...]
Pts == 1..NPoints

XAt(i) == 1 + (i % 2)

IsCov(x) == x.t = "Covariance"

IsComb(x) == IsCov(x) /\ x.cls \in {"Add", "Prod"}

IsTensor(x) == x.t \in {"TensorConstant", "TensorVariable", "TensorSharedVariable"}

IsRaised(x) == x.t = "raised"

RaisedObj(exc) == [t |-> "raised", exc |-> exc]

\* a kernel of one input dimension (Covariance.__init__, lines 32-39)
Kernel(cls) == [t |-> "Covariance", cls |-> cls, input_dim |-> 1, factor_list |-> <<>>]

\* constants: a Python number, numpy arrays and a theano tensor; the data
\* are rows of numbers, one row of one number for a scalar and one row for
\* a 1-D array
Scalar(n) == [t |-> "int", ndim |-> 0, v |-> <<<<n>>>>]

Vector == [t |-> "ndarray", ndim |-> 1, v |-> <<[i \in Pts |-> i % 3]>>]

Matrix == [t |-> "ndarray", ndim |-> 2, v |-> [i \in Pts |-> [j \in Pts |-> (i + 2 * j) % 3]]]

Tensor == [t |-> "TensorConstant", ndim |-> 2,
           v |-> [i \in Pts |-> [j \in Pts |-> (2 * i + j) % 4]]]

\* values of evaluated terms: kind is the shape, via the path that made it
Value(kind, val, via) == [kind |-> kind, val |-> val, via |-> via]

NoValue == Value("none", <<>>, "")

KindOfNdim(ndim) == IF ndim = 2 THEN "matrix" ELSE IF ndim = 1 THEN "vector" ELSE "scalar"

\* Linear(input_dim=1, c=0) (lines 322-332) and WhiteNoise(input_dim=1,
\* sigma=1) with Xs None (lines 162-169)
KernelFull(k) ==
    CASE k.cls = "Linear"     -> Value("matrix", [i \in Pts |-> [j \in Pts |-> XAt(i) * XAt(j)]], "full")
      [] k.cls = "WhiteNoise" -> Value("matrix", [i \in Pts |-> [j \in Pts |->
                                         IF i = j THEN 1 ELSE 0]], "full")

KernelDiag(k) ==
    CASE k.cls = "Linear"     -> Value("vector", <<[i \in Pts |-> XAt(i) * XAt(i)]>>, "diag")
      [] k.cls = "WhiteNoise" -> Value("vector", <<[i \in Pts |-> 1]>>, "diag")

\* x + y and x * y on arrays: elementwise, a vector broadcast along the rows
ValAt(x, i, j) ==
    CASE x.kind = "matrix" -> x.val[i][j]
      [] x.kind = "vector" -> x.val[1][j]
      [] OTHER             -> x.val[1][1]

Apply2(cls, p, q) == IF cls = "Add" THEN p + q ELSE p * q

Combine(cls, x, y) ==
    LET kind == IF "matrix" \in {x.kind, y.kind} THEN "matrix"
                ELSE IF "vector" \in {x.kind, y.kind} THEN "vector"
                ELSE "scalar"
    IN  Value(kind,
              CASE kind = "matrix" ->
                     [i \in Pts |-> [j \in Pts |->
                         Apply2(cls, ValAt(x, i, j), ValAt(y, i, j))]]
                [] kind = "vector" ->
                     <<[j \in Pts |-> Apply2(cls, ValAt(x, 1, j), ValAt(y, 1, j))]>>
                [] OTHER -> <<<<Apply2(cls, ValAt(x, 1, 1), ValAt(y, 1, 1))>>>>,
              "reduce")

\* functools.reduce over the merged factors, left to right (lines 141, 146)
RECURSIVE ReduceFrom(_, _, _)
ReduceFrom(cls, acc, rest) ==
    IF Len(rest) = 0 THEN acc
    ELSE ReduceFrom(cls, Combine(cls, acc, Head(rest)), Tail(rest))

reduce(cls, vals) == ReduceFrom(cls, Head(vals), Tail(vals))

MaxOf(S) == CHOOSE m \in S : \A n \in S : n <= m

\* Combination.__init__ (lines 95-105)
RECURSIVE Flatten(_, _)
Flatten(cls, factors) ==
    IF Len(factors) = 0 THEN <<>>
    ELSE LET factor == Head(factors)
         IN  (IF IsCov(factor) /\ factor.cls = cls
              THEN factor.factor_list ELSE <<factor>>)
             \o Flatten(cls, Tail(factors))

Combination_nested(cls, factors) ==
    [t |-> "Covariance", cls |-> cls,
     input_dim |-> MaxOf({factors[i].input_dim :
                            i \in {j \in 1..Len(factors) : IsCov(factors[j])}}),
     factor_list |-> factors]

Combination(cls, factors) ==
    [t |-> "Covariance", cls |-> cls,
     input_dim |-> MaxOf({factors[i].input_dim :
                            i \in {j \in 1..Len(factors) : IsCov(factors[j])}}),
     factor_list |-> Flatten(cls, factors)]

ConstValue(x) == Value(KindOfNdim(x.ndim), x.v, "const")

\* x op y for two constants: plain array arithmetic, no kernel involved
ConstOp(cls, x, y) ==
    LET r == Combine(cls, ConstValue(x), ConstValue(y))
    IN  [t |-> IF IsTensor(x) \/ IsTensor(y) THEN "TensorVariable"
               ELSE IF "ndarray" \in {x.t, y.t} THEN "ndarray" ELSE "int",
         ndim |-> IF x.ndim >= y.ndim THEN x.ndim ELSE y.ndim,
         v |-> r.val]

\* arr op k with a numpy array on the left: numpy applies op elementwise,
\* each element going through k.__radd__ / k.__rmul__ (lines 71-75), and
\* hands the object array to Covariance.__array_wrap__ (lines 77-91)
ArrayWrap(cls, arr, k) ==
    LET elem  == Combination(cls, <<k, Scalar(0)>>)
        first == elem.factor_list[1]
        taken == elem.factor_list[2]
    IN  IF arr.ndim # 2 THEN RaisedObj("ValueError")
        ELSE IF IsCov(taken) \/ IsTensor(taken) THEN RaisedObj("TypeError")
        ELSE IF taken.ndim # 0 THEN RaisedObj("ValueError")
        ELSE Combination(cls,
                <<first,
                  [t |-> "ndarray", ndim |-> 2,
                   v |-> [i \in Pts |-> [j \in Pts |->
                            Combination(cls, <<k, Scalar(arr.v[i][j])>>)
                                .factor_list[2].v[1][1]]]]>>)

\* Python's x + y (cls Add) and x * y (cls Prod): Covariance.__add__ /
\* __mul__ when x is a kernel (lines 65-69), the reflected methods when only
\* y is one (lines 71-75)
BinOp(cls, x, y) ==
    IF IsRaised(x) THEN x
    ELSE IF IsRaised(y) THEN y
    ELSE IF IsCov(x) THEN Combination(cls, <<x, y>>)
    ELSE IF IsCov(y)
         THEN IF x.t = "ndarray" THEN ArrayWrap(cls, x, y)
              ELSE Combination(cls, <<y, x>>)
    ELSE ConstOp(cls, x, y)

\* Combination.merge_factors for one factor (lines 110-134), Covariance.__call__
\* (lines 54-57) and Add.__call__ / Prod.__call__ (lines 139-146), with Xs None
RECURSIVE Call(_, _)
MergeOne_tensorKept(factor, diag) ==
    IF IsCov(factor) THEN Call(factor, diag)
    ELSE IF factor.t = "ndarray" /\ factor.ndim = 2 /\ diag
    THEN Value("vector", <<[i \in Pts |-> factor.v[i][i]]>>, "np.diag")
    ELSE ConstValue(factor)

MergeOne(factor, diag) ==
    IF IsCov(factor) THEN Call(factor, diag)
    ELSE IF factor.t = "ndarray" /\ factor.ndim = 2 /\ diag
    THEN Value("vector", <<[i \in Pts |-> factor.v[i][i]]>>, "np.diag")
    ELSE IF IsTensor(factor) /\ factor.ndim = 2 /\ diag
    THEN Value("vector", <<[i \in Pts |-> factor.v[i][i]]>>, "tt.diag")
    ELSE ConstValue(factor)

merge_factors(self, diag) ==
    [i \in 1..Len(self.factor_list) |-> MergeOne(self.factor_list[i], diag)]

Call(self, diag) ==
    IF IsComb(self) THEN reduce(self.cls, merge_factors(self, diag))
    ELSE IF diag THEN KernelDiag(self)
    ELSE KernelFull(self)

\* every value merge_factors hands to a reduce while self is evaluated, at
\* any depth of nesting
RECURSIVE Entered(_, _)
Entered(self, diag) ==
    IF ~IsComb(self) THEN {}
    ELSE {merge_factors(self, diag)[i] : i \in 1..Len(self.factor_list)}
         \cup UNION {Entered(self.factor_list[i], diag) :
                       i \in {j \in 1..Len(self.factor_list) :
                                IsCov(self.factor_list[j])}}

----------------------------------------------------------------------------
(* building and evaluating kernel expressions *)

MaxApply == 1

ClassOf(op) == IF op = "+" THEN "Add" ELSE "Prod"

Linear == Kernel("Linear")

WhiteNoise == Kernel("WhiteNoise")

Operands ==
    {Linear, WhiteNoise, Scalar(2), Vector, Matrix, Tensor,
     BinOp("Add", Linear, WhiteNoise), BinOp("Prod", WhiteNoise, Linear)}

NoEval == [diag |-> FALSE, val |-> NoValue, lval |-> NoValue,
           rval |-> NoValue, merged |-> <<>>, entered |-> {}]

\* (a op b) op c and a op (b op c)
Associate ==
    /\ c_pc = "init"
    /\ LET cls == ClassOf(c_in.op)
       IN  /\ c_lhs' = BinOp(cls, BinOp(cls, c_in.a, c_in.b), c_in.c)
           /\ c_rhs' = BinOp(cls, c_in.a, BinOp(cls, c_in.b, c_in.c))
           /\ c_obj' = BinOp(cls, BinOp(cls, c_in.a, c_in.b), c_in.c)
    /\ c_pc' = "built"
    /\ UNCHANGED <<c_in, c_applied, c_eval, gp_vars, s_vars,
                   gibbs_vars, op_vars>>

\* one more + or *, with the object on either side
Extend ==
    /\ c_pc = "built"
    /\ c_applied < MaxApply
    /\ ~IsRaised(c_obj)
    /\ \E op \in {"+", "*"}, other \in {c_in.c, c_rhs}, left \in BOOLEAN :
         c_obj' = IF left THEN BinOp(ClassOf(op), c_obj, other)
                  ELSE BinOp(ClassOf(op), other, c_obj)
    /\ c_applied' = c_applied + 1
    /\ UNCHANGED <<c_in, c_pc, c_lhs, c_rhs, c_eval, gp_vars, s_vars,
                   gibbs_vars, op_vars>>

\* obj(X, diag=diag), and the same for the two association orders
Evaluate ==
    /\ c_pc = "built"
    /\ IsComb(c_obj)
    /\ \E diag \in BOOLEAN :
         c_eval' = [diag |-> diag,
                    val |-> Call(c_obj, diag),
                    lval |-> IF IsComb(c_lhs) THEN Call(c_lhs, diag) ELSE NoValue,
                    rval |-> IF IsComb(c_rhs) THEN Call(c_rhs, diag) ELSE NoValue,
                    merged |-> merge_factors(c_obj, diag),
                    entered |-> Entered(c_obj, diag)]
    /\ c_pc' = "evaluated"
    /\ UNCHANGED <<c_in, c_lhs, c_rhs, c_obj, c_applied, gp_vars, s_vars,
                   gibbs_vars, op_vars>>

----------------------------------------------------------------------------
(* cov.py: the constructors of Covariance and Gibbs *)

MaxInputDim == 3

MaxColumn == 2

\* a Python list of column indices, the way active_dims is passed
Dims(items) == [t |-> "list", items |-> items]

\* np.arange(input_dim)
arange(n) == [i \in 1..n |-> i - 1]

RECURSIVE sum(_)
\* the builtin sum of a list of numbers
sum(items) == IF items = <<>> THEN 0 ELSE Head(items) + sum(Tail(items))

callable(f) == f.t = "function"

\* an object under construction: the exception that ended the constructor
\* ("" for none) and the attributes set so far
Built(raised, input_dim, active_dims, lfunc, args) ==
    [raised |-> raised, input_dim |-> input_dim, active_dims |-> active_dims,
     lfunc |-> lfunc, args |-> args]

\* Covariance.__init__ (lines 32-39)
Covariance_init(input_dim, active_dims) ==
    IF IsNone(active_dims) THEN Built("", input_dim, arange(input_dim), None, None)
    ELSE IF Len(active_dims.items) # input_dim
    THEN Built("ValueError", input_dim, active_dims.items, None, None)
    ELSE Built("", input_dim, active_dims.items, None, None)

\* lines 417-424: the check on the dimensions; "" when it passes
GibbsDims(input_dim, active_dims) ==
    IF ~IsNone(active_dims)
    THEN IF input_dim # 1 \/ sum(active_dims.items) = 1
         THEN "NotImplementedError" ELSE ""
    ELSE IF input_dim # 1 THEN "NotImplementedError" ELSE ""

\* handle_args (lines 462-470) wraps the function, which stays callable
handle_args(func, args) == [t |-> "function", v |-> func.v]

\* Gibbs.__init__ (lines 414-429)
Gibbs(input_dim, lengthscale_func, args, active_dims) ==
    LET base == Covariance_init(input_dim, active_dims)
        dims == GibbsDims(input_dim, active_dims)
    IN  IF base.raised # "" THEN base
        ELSE IF dims # "" THEN [base EXCEPT !.raised = dims]
        ELSE IF ~callable(lengthscale_func)
        THEN [base EXCEPT !.raised = "TypeError"]
        ELSE [base EXCEPT !.lfunc = handle_args(lengthscale_func, args),
                          !.args = args]

LengthscaleFuncs == {[t |-> "function", v |-> "ell"], [t |-> "float", v |-> "0.5"]}

GibbsArgs == {None, [t |-> "tuple", v |-> "args"]}

RECURSIVE ListsUpTo(_)
\* the lists of at most n column indices
ListsUpTo(n) ==
    IF n = 0 THEN {<<>>}
    ELSE LET shorter == ListsUpTo(n - 1)
         IN  shorter \cup {Append(l, c) : l \in {k \in shorter : Len(k) = n - 1},
                                          c \in 0..MaxColumn}

ActiveDims == {None} \cup {Dims(l) : l \in ListsUpTo(MaxInputDim)}

NoBuilt == Built("", 0, <<>>, None, None)

\* one call of the constructor, on any combination of its arguments
CallGibbs ==
    \E input_dim \in 1..MaxInputDim, lengthscale_func \in LengthscaleFuncs,
       args \in GibbsArgs, active_dims \in ActiveDims :
        /\ ~gibbs_args.called
        /\ gibbs_args' = [called |-> TRUE, input_dim |-> input_dim,
                          lengthscale_func |-> lengthscale_func, args |-> args,
                          active_dims |-> active_dims]
        /\ gibbs_obj' = Gibbs(input_dim, lengthscale_func, args, active_dims)
        /\ UNCHANGED <<gp_vars, s_vars, c_vars, op_vars>>

----------------------------------------------------------------------------
(* gp.py: the tensor expressions the variant operations build *)

NTrain == 2

MaxK == 2

\* a node of the theano graph: the operation and its arguments
E(f, a) == [f |-> f, a |-> a]

Sym(name) == E(name, <<>>)

NoExpr == Sym("")

\* stabilize (lines 23-25): K + 1e-6 * (trace(K)/n) * eye(n)
stabilize(K) == E("stabilize", <<K>>)

cholesky(M) == E("cholesky", <<M>>)

solve_lower(L, B) == E("solve_lower", <<L, B>>)

solve_upper(L, B) == E("solve_upper", <<L, B>>)

dot(A, B) == E("dot", <<A, B>>)

transpose(A) == E("transpose", <<A>>)

add(A, B) == E("add", <<A, B>>)

sub(A, B) == E("sub", <<A, B>>)

div(A, B) == E("div", <<A, B>>)

eye(n) == E("eye", <<Sym(n)>>)

\* self.K(X) and self.K(X, Xs), self.Kn(X), self.m(X)
KAt(X, Y) == E("K", <<Sym(X), Sym(Y)>>)

KnAt(X) == E("Kn", <<Sym(X), Sym(X)>>)

MeanAt(m, X) == E(m.v, <<Sym(X)>>)

\* tt.clip(x, 0.0, np.inf) on one element
clip_none(x, lo) == x

clip(x, lo) == IF x < lo THEN lo ELSE x

\* tt.sum over a vector
tt_sum(v) == sum(v)

\* a variant object: its class, mean function, approximation, noise
\* standard deviation, self.v, and the values K(X, diag=True) and
\* sum(A * A, 0) take on the training points
Variant(variant, m, approx, sigma, v, Kffd, Qffd) ==
    [variant |-> variant, m |-> m, approx |-> approx, sigma |-> sigma,
     sigma2 |-> sigma * sigma, v |-> v, Kffd |-> Kffd, Qffd |-> Qffd]

\* a number a/b the code computes in floating point
Ratio(num, den) == [num |-> num, den |-> den]

\* what an operation gives: the exception it raised, the Cholesky factors
\* it took in the order of the calls, and the tensors it computed
Graph(op, raised, factors, f, mean, cov, Lamd, trace) ==
    [op |-> op, raised |-> raised, factors |-> factors, f |-> f, mean |-> mean,
     cov |-> cov, Lamd |-> Lamd, trace |-> trace]

Refused(op, exc, factors) ==
    Graph(op, exc, factors, NoExpr, NoExpr, NoExpr, <<>>, Ratio(0, 1))

\* GPFullNonConjugate.RV (lines 193-200): the Deterministic registered
NonConjugate_RV(gp) ==
    LET v == Sym("v")
        L == cholesky(stabilize(KAt("X", "X")))
        f == dot(L, v)
    IN  Graph("RV", "", <<L>>, f, NoExpr, NoExpr, <<>>, Ratio(0, 1))

\* GPFullNonConjugate.conditional (lines 179-191), called with Xs
NonConjugate_conditional_graph(gp) ==
    IF gp.v = "" THEN Refused("conditional", "AttributeError", <<>>)
    ELSE LET v    == Sym(gp.v)
             Kxx  == KAt("X", "X")
             Kxs  == KAt("X", "Xs")
             Kss  == KAt("Xs", "Xs")
             L    == cholesky(stabilize(Kxx))
             A    == solve_lower(L, Kxs)
             cov  == sub(Kss, dot(transpose(A), A))
             mean == add(MeanAt(gp.m, "Xs"), dot(transpose(A), v))
         IN  Graph("conditional", "", <<L>>, NoExpr, mean, stabilize(cov),
                   <<>>, Ratio(0, 1))

\* GPFullConjugate.conditional (lines 237-252)
FullConjugate_conditional_graph(gp, obs_noise) ==
    LET Kxx  == KAt("X", "X")
        Knx  == KnAt("X")
        Kxs  == KAt("X", "Xs")
        Kss  == KAt("Xs", "Xs")
        r    == sub(Sym("y"), MeanAt(gp.m, "X"))
        L    == cholesky(add(stabilize(Kxx), Knx))
        A    == solve_lower(L, Kxs)
        V    == solve_lower(L, r)
        mean == add(dot(transpose(A), V), MeanAt(gp.m, "Xs"))
        cov  == IF obs_noise
                THEN sub(add(KnAt("Xs"), Kss), dot(transpose(A), A))
                ELSE sub(Kss, dot(transpose(A), A))
    IN  Graph("conditional", "", <<L>>, NoExpr, mean, stabilize(cov),
              <<>>, Ratio(0, 1))

\* GPFullConjugate.logp (lines 254-257)
FullConjugate_logp(gp) ==
    LET mean == MeanAt(gp.m, "X")
        L    == cholesky(add(stabilize(KAt("X", "X")), KnAt("X")))
    IN  Graph("logp", "", <<L>>, NoExpr, mean, NoExpr, <<>>, Ratio(0, 1))

\* GPSparseConjugate.prior (lines 294-307)
SparseConjugate_prior_unstable(gp, obs_noise) ==
    LET Luu == cholesky(KAt("Xu", "Xu"))
    IN  Graph("prior", "", <<Luu>>, NoExpr, MeanAt(gp.m, "X"), NoExpr,
              <<>>, Ratio(0, 1))

SparseConjugate_prior_graph(gp, obs_noise) ==
    LET Kuu  == KAt("Xu", "Xu")
        Kuf  == KAt("Xu", "X")
        Luu  == cholesky(stabilize(Kuu))
        A    == solve_lower(Luu, Kuf)
        Kffd == Sym("Kffd")
        Qff  == dot(transpose(A), A)
        mean == MeanAt(gp.m, "X")
        core == sub(Qff, sub(E("diag", <<Qff>>), Kffd))
        cov  == IF obs_noise
                THEN add(core, E("mul", <<Sym("sigma2"), eye("nf")>>))
                ELSE core
    IN  Graph("prior", "", <<Luu>>, NoExpr, mean, stabilize(cov),
              <<>>, Ratio(0, 1))

\* lines 315-321 of conditional: the effective noise of each training
\* point, <<>> when approx is neither "FITC" nor "VFE"
Lamd_conditional(gp) ==
    IF gp.approx = "FITC"
    THEN [i \in 1..Len(gp.Qffd) |-> clip(gp.Kffd[i] - gp.Qffd[i], 0) + gp.sigma2]
    ELSE IF gp.approx = "VFE"
    THEN [i \in 1..Len(gp.Qffd) |-> 1 * gp.sigma2]
    ELSE <<>>

\* GPSparseConjugate.conditional (lines 309-338)
SparseConjugate_conditional_graph(gp, obs_noise) ==
    LET Kuu  == KAt("Xu", "Xu")
        Kuf  == KAt("Xu", "X")
        Luu  == cholesky(stabilize(Kuu))
        A    == solve_lower(Luu, Kuf)
        Lamd == Sym("Lamd")
        A_l  == div(A, Lamd)
        L_B  == cholesky(add(eye("nu"), dot(A_l, transpose(A))))
        r    == sub(Sym("y"), MeanAt(gp.m, "X"))
        r_l  == div(r, Lamd)
        c    == solve_lower(L_B, dot(A, r_l))
        Kus  == KAt("Xu", "Xs")
        As   == solve_lower(Luu, Kus)
        mean == dot(transpose(As), solve_upper(transpose(L_B), c))
        C    == solve_lower(L_B, As)
        core == add(sub(KAt("Xs", "Xs"), dot(transpose(As), As)),
                    dot(transpose(C), C))
        cov  == IF obs_noise
                THEN add(core, E("mul", <<Sym("sigma2"), eye("ns")>>))
                ELSE core
    IN  IF gp.approx \notin {"FITC", "VFE"}
        THEN Refused("conditional", "NotImplementedError", <<Luu>>)
        ELSE Graph("conditional", "", <<Luu, L_B>>, NoExpr, mean,
                   stabilize(cov), Lamd_conditional(gp), Ratio(0, 1))

\* lines 346-356 of logp: the effective noise and the trace term
Lamd_logp(gp) ==
    IF gp.approx = "FITC"
    THEN [i \in 1..Len(gp.Qffd) |-> clip(gp.Kffd[i] - gp.Qffd[i], 0) + gp.sigma2]
    ELSE IF gp.approx = "VFE"
    THEN [i \in 1..Len(gp.Qffd) |-> 1 * gp.sigma2]
    ELSE <<>>

trace_logp(gp) ==
    IF gp.approx = "VFE"
    THEN Ratio(1 * (tt_sum(gp.Kffd) - tt_sum(gp.Qffd)), 2 * gp.sigma2)
    ELSE Ratio(0, 1)

\* GPSparseConjugate.logp (lines 340-365)
SparseConjugate_logp(gp) ==
    LET Kuu  == KAt("Xu", "Xu")
        Kuf  == KAt("Xu", "X")
        Luu  == cholesky(stabilize(Kuu))
        A    == solve_lower(Luu, Kuf)
        Lamd == Sym("Lamd")
        A_l  == div(A, Lamd)
        L_B  == cholesky(add(eye("nu"), dot(A_l, transpose(A))))
    IN  IF gp.approx \notin {"FITC", "VFE"}
        THEN Refused("logp", "NotImplementedError", <<Luu>>)
        ELSE Graph("logp", "", <<Luu, L_B>>, NoExpr, MeanAt(gp.m, "X"),
                   NoExpr, Lamd_logp(gp), trace_logp(gp))

\* the objects the operations are called on: the full variants with a zero
\* and a non-zero mean function; the sparse one with either approximation
\* or, built directly from its class, with a name logp and conditional do
\* not know, and with every value of K(X, diag=True) and sum(A * A, 0)
OpMeans == {Zero, [t |-> "Mean", v |-> "Linear"]}

OpSigmas == {1, 2}

OpDiags == [1..NTrain -> 0..MaxK]

OpObjects ==
    {Variant("GPFullNonConjugate", m, "", 0, "", <<>>, <<>>) : m \in OpMeans}
    \cup {Variant("GPFullConjugate", m, "", 0, "", <<>>, <<>>) : m \in OpMeans}
    \cup {Variant("GPSparseConjugate", Zero, ap, sg, "", kf, qf) :
            ap \in {"FITC", "VFE", "DTC"}, sg \in OpSigmas,
            kf \in OpDiags, qf \in OpDiags}

NoGraph == Refused("", "", <<>>)

\* the RV property of the non-conjugate variant, which sets self.v
OpRV ==
    /\ op_gp.variant = "GPFullNonConjugate"
    /\ op_out' = NonConjugate_RV(op_gp)
    /\ op_gp' = [op_gp EXCEPT !.v = "v"]
    /\ UNCHANGED <<gp_vars, s_vars, c_vars, gibbs_vars>>

OpPrior ==
    /\ op_gp.variant = "GPSparseConjugate"
    /\ \E obs_noise \in BOOLEAN :
         op_out' = SparseConjugate_prior_graph(op_gp, obs_noise)
    /\ UNCHANGED <<op_gp, gp_vars, s_vars, c_vars, gibbs_vars>>

OpConditional ==
    /\ \E obs_noise \in BOOLEAN :
         op_out' = CASE op_gp.variant = "GPFullNonConjugate" ->
                          NonConjugate_conditional_graph(op_gp)
                     [] op_gp.variant = "GPFullConjugate" ->
                          FullConjugate_conditional_graph(op_gp, obs_noise)
                     [] op_gp.variant = "GPSparseConjugate" ->
                          SparseConjugate_conditional_graph(op_gp, obs_noise)
    /\ UNCHANGED <<op_gp, gp_vars, s_vars, c_vars, gibbs_vars>>

OpLogp ==
    /\ op_gp.variant \in {"GPFullConjugate", "GPSparseConjugate"}
    /\ op_out' = IF op_gp.variant = "GPFullConjugate"
                 THEN FullConjugate_logp(op_gp)
                 ELSE SparseConjugate_logp(op_gp)
    /\ UNCHANGED <<op_gp, gp_vars, s_vars, c_vars, gibbs_vars>>

----------------------------------------------------------------------------
(* specifications *)

NoCall == [called |-> FALSE]

NoResult == Raised("", FALSE, <<>>, None)

GPIdle ==
    /\ gp_args = NoCall
    /\ gp_result = NoResult

SamplerIdle ==
    /\ s_in = NoCall
    /\ s_pc = "idle"
    /\ s_indices = <<>>
    /\ s_pos = 0
    /\ s_samples = Unbound
    /\ s_pending = ""
    /\ s_ret = NoReturn
    /\ s_interrupt = NoInterrupt
    /\ np_random = [seed |-> None, used |-> 0]
    /\ bar = "none"

\* one call of the constructor, on any combination of its arguments
CallGP ==
    \E X \in Xs, mean_func \in MeanFuncs, cov_func \in CovFuncs,
       cov_func_noise \in NoiseFuncs, sigma \in Sigmas, approx \in Approxes,
       n_inducing \in NInducings, inducing_points \in InducingPs,
       observed \in Observeds, model \in Models :
        /\ ~gp_args.called
        /\ gp_args' = [called |-> TRUE, X |-> X, mean_func |-> mean_func,
                       cov_func |-> cov_func, cov_func_noise |-> cov_func_noise,
                       sigma |-> sigma, approx |-> approx,
                       n_inducing |-> n_inducing,
                       inducing_points |-> inducing_points,
                       observed |-> observed, model |-> model]
        /\ gp_result' = GP(X, mean_func, cov_func, cov_func_noise, sigma,
                           approx, n_inducing, inducing_points, observed, model)
        /\ UNCHANGED <<s_vars, c_vars, gibbs_vars, op_vars>>

CovIdle ==
    /\ c_in = NoCall
    /\ c_pc = "idle"
    /\ c_lhs = None
    /\ c_rhs = None
    /\ c_obj = None
    /\ c_applied = 0
    /\ c_eval = NoEval

GibbsIdle ==
    /\ gibbs_args = NoCall
    /\ gibbs_obj = NoBuilt

OpIdle ==
    /\ op_gp = Variant("none", Zero, "", 0, "", <<>>, <<>>)
    /\ op_out = NoGraph

InitGP == GPIdle /\ SamplerIdle /\ CovIdle /\ GibbsIdle /\ OpIdle

NextGP == CallGP

SpecGP == InitGP /\ [][NextGP]_vars

\* the GP variables sample_gp is called on: what GP returns for a valid
\* covariance function, with and without observed data and an approximation
SamplerGPs ==
    {g \in {GP([t |-> "ndarray", v |-> "X"], None,
               [t |-> "Covariance", v |-> "ExpQuad"], None,
               [t |-> "float", v |-> "0.1"], ap, ni, None, ob, None) :
             ap \in {None, Str("VFE"), Str("FITC")}, ni \in NInducings,
             ob \in Observeds} : g.raised = ""}

InitSample ==
    /\ GPIdle
    /\ CovIdle
    /\ GibbsIdle
    /\ OpIdle
    /\ s_in \in [called : {TRUE},
                 trace_len : 1..MaxTrace,
                 gp : SamplerGPs,
                 X_values : {[t |-> "ndarray", v |-> "Xnew"]},
                 n_samples : {None} \cup {PyInt(n) : n \in 0..MaxSamples},
                 obs_noise : BOOLEAN,
                 from_prior : BOOLEAN,
                 random_seed : {None, PyInt(0), PyInt(42)},
                 progressbar : BOOLEAN]
    /\ s_pc = "call"
    /\ s_indices = <<>>
    /\ s_pos = 0
    /\ s_samples = Unbound
    /\ s_pending = ""
    /\ s_ret = NoReturn
    /\ s_interrupt = NoInterrupt
    /\ np_random = [seed |-> None, used |-> 0]
    /\ bar = "none"

NextSample ==
    \/ Enter
    \/ BeginLoop
    \/ Draw
    \/ EndLoop
    \/ Interrupt
    \/ Finally

SpecSample == InitSample /\ [][NextSample]_vars

InitCov ==
    /\ GPIdle
    /\ SamplerIdle
    /\ GibbsIdle
    /\ OpIdle
    /\ c_in \in [a : Operands, b : Operands, c : Operands, op : {"+", "*"}]
    /\ c_pc = "init"
    /\ c_lhs = None
    /\ c_rhs = None
    /\ c_obj = None
    /\ c_applied = 0
    /\ c_eval = NoEval

NextCov ==
    \/ Associate
    \/ Extend
    \/ Evaluate

SpecCov == InitCov /\ [][NextCov]_vars

InitGibbs == GPIdle /\ SamplerIdle /\ CovIdle /\ GibbsIdle /\ OpIdle

NextGibbs == CallGibbs

SpecGibbs == InitGibbs /\ [][NextGibbs]_vars

InitOps ==
    /\ GPIdle
    /\ SamplerIdle
    /\ CovIdle
    /\ GibbsIdle
    /\ op_gp \in OpObjects
    /\ op_out = NoGraph

NextOps ==
    \/ OpRV
    \/ OpPrior
    \/ OpConditional
    \/ OpLogp

SpecOps == InitOps /\ [][NextOps]_vars

----------------------------------------------------------------------------
(* properties of the GP constructor, checked under SpecGP *)

Succeeded == gp_args.called /\ gp_result.raised = ""

NoApproxArgs ==
    /\ IsNone(gp_args.approx)
    /\ IsNone(gp_args.n_inducing)
    /\ IsNone(gp_args.inducing_points)

FuncsValid ==
    /\ IsNone(gp_args.mean_func) \/ isinstance(gp_args.mean_func, "Mean")
    /\ isinstance(gp_args.cov_func, "Covariance")

\* C1: a call of GP that succeeds builds exactly one variant, decided by
\* which arguments are present: non-conjugate when observed is None
\* (whatever sigma, approx, n_inducing and inducing_points are), else full
\* conjugate when approx, n_inducing and inducing_points are all None, else
\* sparse conjugate.
C1_VariantByPresence ==
    Succeeded =>
        gp_result.variant =
            IF IsNone(gp_args.observed) THEN "GPFullNonConjugate"
            ELSE IF NoApproxArgs THEN "GPFullConjugate"
            ELSE "GPSparseConjugate"

C1_Witness ==
    /\ Succeeded
    /\ gp_result.variant = "GPFullNonConjugate"
    /\ ~IsNone(gp_args.sigma)
    /\ ~IsNone(gp_args.approx)
    /\ ~IsNone(gp_args.n_inducing)

\* C3: with observed data and at least one of approx, n_inducing,
\* inducing_points given, an approx that is not 'FITC' or 'VFE' (None
\* included) makes GP raise GPValueError with no GP built, no default
\* approximation chosen and no k-means initialisation run.
C3_BadApproxIsValueError ==
    (/\ gp_args.called
     /\ ~IsNone(gp_args.observed)
     /\ ~NoApproxArgs
     /\ ~(isinstance(gp_args.approx, "str") /\ gp_args.approx.v \in {"FITC", "VFE"}))
    => /\ gp_result.raised = "GPValueError"
       /\ gp_result.variant = "none"
       /\ gp_result.log = <<>>
       /\ ~gp_result.kmeans

\* C4: with observed data and a recognized approx but neither
\* inducing_points nor n_inducing, GP raises GPValueError and builds nothing;
\* a sparse-conjugate GP that is built has the inducing points that were
\* passed, or else those k-means derived from n_inducing.
C4_InducingRequired ==
    /\ (/\ gp_args.called
        /\ ~IsNone(gp_args.observed)
        /\ isinstance(gp_args.approx, "str")
        /\ UpperOf(gp_args.approx.v) \in {"FITC", "VFE"}
        /\ IsNone(gp_args.inducing_points)
        /\ IsNone(gp_args.n_inducing))
       => (gp_result.raised = "GPValueError" /\ gp_result.variant = "none")
    /\ (gp_args.called /\ gp_result.variant = "GPSparseConjugate")
       => \/ /\ ~IsNone(gp_args.inducing_points)
             /\ gp_result.Xu.v = gp_args.inducing_points.v
             /\ ~gp_result.kmeans
          \/ /\ IsNone(gp_args.inducing_points)
             /\ ~IsNone(gp_args.n_inducing)
             /\ gp_result.Xu.v = "Xu*scaling"
             /\ gp_result.kmeans

C4_Witness ==
    /\ gp_args.called
    /\ FuncsValid
    /\ ~IsNone(gp_args.observed)
    /\ isinstance(gp_args.approx, "str")
    /\ gp_args.approx.v = "VFE"
    /\ IsNone(gp_args.inducing_points)
    /\ IsNone(gp_args.n_inducing)
    /\ gp_result.raised = "GPValueError"

\* C5: GP raises GPValueError and builds no variant whenever mean_func is
\* given and is not a Mean, cov_func is None, or cov_func is not a
\* Covariance, whatever the other arguments are; nothing of the dispatch
\* (k-means, the choice of an approximation) has run by then.
C5_FuncsCheckedFirst ==
    (gp_args.called /\ ~FuncsValid)
    => /\ gp_result.raised = "GPValueError"
       /\ gp_result.variant = "none"
       /\ ~gp_result.kmeans
       /\ gp_result.log = <<>>

C5_Witness ==
    /\ gp_args.called
    /\ ~IsNone(gp_args.mean_func)
    /\ ~isinstance(gp_args.mean_func, "Mean")
    /\ isinstance(gp_args.cov_func, "Covariance")
    /\ ~IsNone(gp_args.observed)
    /\ ~IsNone(gp_args.n_inducing)
    /\ isinstance(gp_args.approx, "str")
    /\ gp_result.raised = "GPValueError"

\* C6: with observed data, approx, n_inducing and inducing_points all None
\* (and mean and covariance functions that pass their checks), GP raises
\* GPValueError and builds nothing when sigma and cov_func_noise are both
\* None, and otherwise builds a full-conjugate GP that has a noise
\* covariance function.
C6_NoiseRequired ==
    (/\ gp_args.called
     /\ FuncsValid
     /\ ~IsNone(gp_args.observed)
     /\ NoApproxArgs)
    => IF IsNone(gp_args.sigma) /\ IsNone(gp_args.cov_func_noise)
       THEN gp_result.raised = "GPValueError" /\ gp_result.variant = "none"
       ELSE /\ gp_result.raised = ""
            /\ gp_result.variant = "GPFullConjugate"
            /\ ~IsNone(gp_result.Kn)

C6_Witness ==
    /\ Succeeded
    /\ NoApproxArgs
    /\ ~IsNone(gp_args.observed)
    /\ ~IsNone(gp_args.sigma)
    /\ IsNone(gp_args.cov_func_noise)
    /\ gp_result.variant = "GPFullConjugate"
    /\ gp_result.Kn.t = "function"

----------------------------------------------------------------------------
(* properties of sample_gp, checked under SpecSample *)

\* C2: for each variant, random() takes (mean, cov) from prior(obs_noise)
\* when from_prior is true and from conditional(X_values, y, obs_noise)
\* otherwise; no variant refuses either call, and each sample is a
\* multivariate-normal draw with that mean and covariance.
C2_RandomDelegates ==
    /\ s_pending \notin {"TypeError", "NotImplementedError"}
    /\ s_samples.t = "list" =>
         \A i \in 1..Len(s_samples.v) :
            /\ s_samples.v[i].dist = "multivariate_normal"
            /\ s_samples.v[i].via =
                 IF s_in.from_prior THEN "prior" ELSE "conditional"

\* C9: a KeyboardInterrupt in the sampling loop, after k samples were drawn,
\* ends the loop; sample_gp then returns normally exactly those k samples
\* in their order, and raises nothing.
C9_InterruptKeepsSamples ==
    s_interrupt.at = "loop" =>
        /\ s_pc \in {"finally", "returned"}
        /\ s_samples = s_interrupt.samples
        /\ s_pc = "returned" =>
             /\ s_pending = ""
             /\ s_ret = [t |-> "ndarray", v |-> s_interrupt.samples.v]

C9_Witness ==
    /\ s_interrupt.at = "loop"
    /\ s_pc = "returned"
    /\ Len(s_ret.v) >= 1
    /\ Len(s_ret.v) < Len(s_indices)

\* C10: sample_gp called with n_samples greater than len(trace) raises an
\* error: it returns nothing, draws no index (so neither clamps n_samples
\* nor repeats an index) and computes no sample.
C10_TooManySamplesFails ==
    (/\ s_pc # "call"
     /\ ~IsNone(s_in.n_samples)
     /\ s_in.n_samples.n > s_in.trace_len)
    => /\ s_pc = "raised"
       /\ s_pending = "ValueError"
       /\ s_ret = NoReturn
       /\ s_indices = <<>>
       /\ s_samples = Unbound

C10_Witness ==
    /\ s_pc = "raised"
    /\ ~IsNone(s_in.n_samples)
    /\ s_in.n_samples.n = s_in.trace_len + 1

\* C11: a run of sample_gp that is not interrupted and does not fail returns
\* exactly n_samples samples (len(trace) of them when n_samples is None);
\* each is computed from one trace entry trace[ix] with 0 <= ix < len(trace),
\* and no trace index is used for more than one sample.
C11_ExactDistinctEntries ==
    (s_pc = "returned" /\ s_interrupt.at = "") =>
        LET want == IF IsNone(s_in.n_samples) THEN s_in.trace_len
                    ELSE s_in.n_samples.n
        IN  /\ s_ret.t = "ndarray"
            /\ Len(s_ret.v) = want
            /\ \A i \in 1..Len(s_ret.v) :
                  /\ s_ret.v[i].raised = ""
                  /\ s_ret.v[i].point \in 0..(s_in.trace_len - 1)
            /\ \A i, j \in 1..Len(s_ret.v) :
                  i # j => s_ret.v[i].point # s_ret.v[j].point

C11_Witness ==
    /\ s_pc = "returned"
    /\ s_interrupt.at = ""
    /\ IsNone(s_in.n_samples)
    /\ s_in.trace_len >= 2
    /\ Len(s_ret.v) = s_in.trace_len

\* the state of numpy's global generator before sample_gp is called
FreshRandom == [seed |-> None, used |-> 0]

TruthySeed == ~IsNone(s_in.random_seed) /\ s_in.random_seed.n # 0

\* C12 as stated: whatever the arguments, a given random_seed included, the
\* process-wide state outside the call is the same after sample_gp has
\* returned or raised as it was before the call.
C12_OnlyLocalState ==
    s_pc \in {"returned", "raised"} => np_random = FreshRandom

\* C12 amended: no step of sample_gp changes its arguments (the trace and
\* the GP variable among them); of the state outside the call it changes
\* numpy's global generator and nothing else: the generator is reseeded with
\* random_seed on entry exactly when random_seed is given and not zero, and
\* otherwise only advanced, by the choice of indices and by each draw.
C12_OnlyGlobalGenerator ==
    [][/\ s_in' = s_in
       /\ gp_vars' = gp_vars
       /\ c_vars' = c_vars
       /\ gibbs_vars' = gibbs_vars
       /\ op_vars' = op_vars
       /\ (s_pc = "call" /\ TruthySeed) => np_random'.seed = s_in.random_seed
       /\ ~(s_pc = "call" /\ TruthySeed) =>
            /\ np_random'.seed = np_random.seed
            /\ np_random'.used >= np_random.used
       /\ np_random' # np_random => s_pc \in {"call", "loop"}]_vars

C12_Witness ==
    /\ s_pc = "returned"
    /\ s_in.random_seed = PyInt(42)
    /\ np_random.seed = PyInt(42)
    /\ np_random.used >= 2

----------------------------------------------------------------------------
(* properties of the covariance algebra, checked under SpecCov *)

SameOp(x) == IsCov(x) /\ x.cls = ClassOf(c_in.op)

\* x is one combination of the expression's operator with exactly these terms
HasTerms(x, terms) ==
    /\ IsComb(x)
    /\ x.cls = ClassOf(c_in.op)
    /\ x.factor_list = terms

\* no combination inside x, x included, has a term of its own class
RECURSIVE NoSameNested(_)
NoSameNested(x) ==
    IsComb(x) =>
        \A i \in 1..Len(x.factor_list) :
            /\ ~(IsCov(x.factor_list[i]) /\ x.factor_list[i].cls = x.cls)
            /\ NoSameNested(x.factor_list[i])

AssociationHolds ==
    /\ HasTerms(c_lhs, <<c_in.a, c_in.b, c_in.c>>)
    /\ HasTerms(c_rhs, <<c_in.a, c_in.b, c_in.c>>)
    /\ c_pc = "evaluated" => c_eval.lval = c_eval.rval

\* C7 as stated: for any operands a, b, c and op in {+, *}, (a op b) op c
\* and a op (b op c) are each one combination with the term list [a, b, c],
\* so they evaluate to the same result; and no combination ever has a term
\* of its own operator type.
C7_AnyOperands ==
    c_pc \in {"built", "evaluated"} =>
        /\ AssociationHolds
        /\ NoSameNested(c_obj)

\* C7 amended: the term list is [a, b, c] on both sides when a and b are
\* kernels and none of a, b, c is itself a combination of op's type (c may
\* be a constant; a combination of the other type stays one nested term);
\* and, for any operands, no combination built by + and * has a term of its
\* own operator type.
C7_KernelOperands ==
    c_pc \in {"built", "evaluated"} =>
        /\ (/\ IsCov(c_in.a) /\ IsCov(c_in.b)
            /\ ~SameOp(c_in.a) /\ ~SameOp(c_in.b) /\ ~SameOp(c_in.c))
           => AssociationHolds
        /\ NoSameNested(c_lhs)
        /\ NoSameNested(c_rhs)
        /\ NoSameNested(c_obj)

C7_Witness ==
    /\ c_pc = "evaluated"
    /\ c_in.op = "+"
    /\ IsComb(c_in.a) /\ c_in.a.cls = "Prod"
    /\ c_in.b = Linear
    /\ c_in.c = Scalar(2)
    /\ c_lhs.factor_list = <<c_in.a, c_in.b, c_in.c>>
    /\ c_rhs.factor_list = <<c_in.a, c_in.b, c_in.c>>
    /\ c_eval.lval = c_eval.rval
    /\ c_eval.lval.kind = "matrix"

IsMatrixConst(x) == ~IsCov(x) /\ (x.t = "ndarray" \/ IsTensor(x)) /\ x.ndim = 2

\* C8: in an evaluation with diag=True every term handed to the reduction,
\* at every depth of nesting, is already a diagonal: a kernel term comes
\* from the kernel's diag path, a 2-D array or tensor term is replaced by
\* its diagonal, a scalar or 1-D term is passed unchanged, and no full
\* matrix is among the merged terms.
C8_DiagonalFirst ==
    (c_pc = "evaluated" /\ c_eval.diag) =>
        /\ \A x \in c_eval.entered : x.kind # "matrix" /\ x.via # "full"
        /\ \A i \in 1..Len(c_obj.factor_list) :
             LET factor == c_obj.factor_list[i]
                 term   == c_eval.merged[i]
             IN  /\ (IsCov(factor) /\ ~IsComb(factor)) => term = KernelDiag(factor)
                 /\ IsMatrixConst(factor) =>
                      /\ term.kind = "vector"
                      /\ \A p \in Pts : term.val[1][p] = factor.v[p][p]
                 /\ (~IsCov(factor) /\ factor.ndim < 2) =>
                      (term.kind = KindOfNdim(factor.ndim) /\ term.val = factor.v)
        /\ c_eval.val.kind # "matrix"

C8_Witness ==
    /\ c_pc = "evaluated"
    /\ c_eval.diag
    /\ \E i \in 1..Len(c_obj.factor_list) :
         /\ IsComb(c_obj.factor_list[i])
         /\ \E j \in 1..Len(c_obj.factor_list[i].factor_list) :
              c_obj.factor_list[i].factor_list[j] = Matrix
         /\ \E j \in 1..Len(c_obj.factor_list[i].factor_list) :
              c_obj.factor_list[i].factor_list[j] = Linear
    /\ \E i \in 1..Len(c_obj.factor_list) : c_obj.factor_list[i] = Tensor

----------------------------------------------------------------------------
(* properties of the variant operations, checked under SpecOps *)

\* the matrix a Cholesky factor was taken of
FactorOf(L) == L.a[1]

\* the operations C13 names, on the variants that have them
Factorizing ==
    /\ op_out.op \in {"RV", "prior", "conditional", "logp"}
    /\ op_out.raised \in {"", "NotImplementedError"}

\* C13 as stated: in every variant operation stabilize is applied
\* immediately before every Cholesky call, so each matrix handed to cholesky
\* is the direct result of stabilize.
C13_StabilizeBeforeEveryCholesky ==
    \A i \in 1..Len(op_out.factors) :
        FactorOf(op_out.factors[i]).f = "stabilize"

\* C13 amended: every operation takes its first Cholesky factor of a matrix
\* built from the stabilized kernel matrix: of stabilize(K(X,X)) itself in
\* the non-conjugate RV and conditional, of stabilize(K(Xu,Xu)) itself in
\* the sparse prior, conditional and logp, and of stabilize(K(X,X)) + Kn(X),
\* the noise added after stabilize, in the full-conjugate conditional and
\* logp; the second factor of the sparse conditional and logp,
\* L_B = cholesky(eye(nu) + dot(A_l, A.T)), is taken of a matrix stabilize
\* is not applied to.
C13_StabilizeKernelFirst ==
    Factorizing =>
        /\ Len(op_out.factors) >= 1
        /\ LET M == FactorOf(op_out.factors[1])
           IN  CASE op_gp.variant = "GPFullNonConjugate" ->
                      M = stabilize(KAt("X", "X"))
                 [] op_gp.variant = "GPFullConjugate" ->
                      M = add(stabilize(KAt("X", "X")), KnAt("X"))
                 [] op_gp.variant = "GPSparseConjugate" ->
                      M = stabilize(KAt("Xu", "Xu"))
        /\ \A i \in 2..Len(op_out.factors) :
              /\ i = 2
              /\ op_gp.variant = "GPSparseConjugate"
              /\ op_out.op \in {"conditional", "logp"}
              /\ LET A == solve_lower(op_out.factors[1], KAt("Xu", "X"))
                 IN  FactorOf(op_out.factors[i]) =
                       add(eye("nu"), dot(div(A, Sym("Lamd")), transpose(A)))

C13_Witness ==
    /\ op_gp.variant = "GPSparseConjugate"
    /\ op_out.op = "logp"
    /\ Len(op_out.factors) = 2
    /\ FactorOf(op_out.factors[1]).f = "stabilize"
    /\ FactorOf(op_out.factors[2]).f = "add"

\* mean.Zero evaluates to zeros: a sum with it has the value of the other term
Simplified(e) == IF e.f = "add" /\ e.a[1].f = "Zero" THEN e.a[2] ELSE e

\* C14: the latent value the non-conjugate GP registers is
\* f = mean(X) + L.v with L = cholesky(stabilize(K(X,X))), for every mean
\* function, a non-zero one in particular, and its conditional mean at Xs
\* is mean(Xs) + A.T v with A = solve_lower(L, K(X,Xs)).
C14_LatentHasMean ==
    LET L == cholesky(stabilize(KAt("X", "X")))
        A == solve_lower(L, KAt("X", "Xs"))
        v == Sym("v")
    IN  /\ op_out.op = "RV" =>
             Simplified(op_out.f) = Simplified(add(MeanAt(op_gp.m, "X"), dot(L, v)))
        /\ (/\ op_out.op = "conditional"
            /\ op_gp.variant = "GPFullNonConjugate"
            /\ op_out.raised = "") =>
             Simplified(op_out.mean) =
               Simplified(add(MeanAt(op_gp.m, "Xs"), dot(transpose(A), v)))

Max(a, b) == IF a >= b THEN a ELSE b

SigmaSquared == op_gp.sigma * op_gp.sigma

SparseCalled(op) == op_gp.variant = "GPSparseConjugate" /\ op_out.op = op

\* C16: in the sparse GP, in logp and in conditional alike: with FITC,
\* Lamd_i = max(K_diag(X)_i - Qffd_i, 0) + sigma^2 for every training point
\* and the trace term of logp is 0; with VFE, Lamd_i = sigma^2 for every
\* point and the trace term of logp is
\* (1/(2 sigma^2)) * (sum_i K_diag(X)_i - sum_i Qffd_i); with any other
\* approx both operations raise NotImplementedError.
C16_NoiseAndTraceByApprox ==
    (SparseCalled("logp") \/ SparseCalled("conditional")) =>
        CASE op_gp.approx = "FITC" ->
               /\ op_out.raised = ""
               /\ Len(op_out.Lamd) = NTrain
               /\ \A i \in 1..NTrain :
                     op_out.Lamd[i] =
                       Max(op_gp.Kffd[i] - op_gp.Qffd[i], 0) + SigmaSquared
               /\ op_out.op = "logp" => op_out.trace.num = 0
          [] op_gp.approx = "VFE" ->
               /\ op_out.raised = ""
               /\ Len(op_out.Lamd) = NTrain
               /\ \A i \in 1..NTrain : op_out.Lamd[i] = SigmaSquared
               /\ op_out.op = "logp" =>
                     /\ op_out.trace.den # 0
                     /\ op_out.trace.num * (2 * SigmaSquared) =
                          (sum(op_gp.Kffd) - sum(op_gp.Qffd)) * op_out.trace.den
          [] OTHER ->
               op_out.raised = "NotImplementedError"

\* a FITC logp in which one point is clipped and another is not
C16_Witness ==
    /\ SparseCalled("logp")
    /\ op_gp.approx = "FITC"
    /\ op_out.raised = ""
    /\ \E i, j \in 1..NTrain :
         /\ op_gp.Kffd[i] < op_gp.Qffd[i]
         /\ op_gp.Kffd[j] > op_gp.Qffd[j]
         /\ op_out.Lamd[i] < op_out.Lamd[j]

----------------------------------------------------------------------------
(* properties of the Gibbs constructor, checked under SpecGibbs *)

\* active_dims is left unspecified or names one column
OneColumnOrNone ==
    \/ IsNone(gibbs_args.active_dims)
    \/ Len(gibbs_args.active_dims.items) = 1

\* C15: constructing a Gibbs kernel raises NotImplementedError whenever
\* input_dim is not 1; with input_dim 1 and a callable lengthscale function
\* it succeeds for every active_dims of length 1 and for active_dims left
\* unspecified; with a lengthscale function that is not callable it raises
\* TypeError.
C15_GibbsOneDimensional ==
    gibbs_args.called =>
        /\ gibbs_args.input_dim # 1 => gibbs_obj.raised = "NotImplementedError"
        /\ (/\ gibbs_args.input_dim = 1
            /\ OneColumnOrNone
            /\ callable(gibbs_args.lengthscale_func)) => gibbs_obj.raised = ""
        /\ (/\ gibbs_args.input_dim = 1
            /\ OneColumnOrNone
            /\ ~callable(gibbs_args.lengthscale_func)) =>
             gibbs_obj.raised = "TypeError"

====
